---- MODULE Spec2Model ----
(***************************************************************************)
(* Sequential Dijkstra (dijkstra.c) and the random graph generator         *)
(* (genGraph.c).                                                           *)
(*                                                                         *)
(* The C program computes with 32-bit unsigned integers.  A 32-bit value   *)
(* is kept here as a pair <<hi, lo>> of 16-bit digits (value = hi*2^16+lo) *)
(* so that wrap-around of the C arithmetic is computed exactly.  The same  *)
(* pair form with an unbounded hi digit is used for mathematical sums.     *)
(***************************************************************************)
EXTENDS Integers, Sequences, FiniteSets

(***************************************************************************)
(* Bounds of the model.                                                    *)
(***************************************************************************)
\* largest vertex count of the graphs the engine is run on
MaxNV == 3
\* largest number of present (non-'*') off-diagonal edges of those graphs
MaxEdges == 3
\* largest vertex count the loader is given on standard input
MaxInputNV == 2
\* largest vertex count the generator is given
MaxGenNV == 2

(***************************************************************************)
(* 32-bit unsigned arithmetic.                                             *)
(***************************************************************************)
Base == 2^16

\* conversion of a C int to unsigned int (value modulo 2^32)
ToU32(n) == <<(n \div Base) % Base, n % Base>>

\* a + b in unsigned int arithmetic: the sum modulo 2^32
Add32(a, b) ==
    LET lo == a[2] + b[2]
    IN  <<(a[1] + b[1] + (lo \div Base)) % Base, lo % Base>>

\* a + b as a mathematical sum (no wrap-around; hi digit unbounded)
AddN(a, b) ==
    LET lo == a[2] + b[2]
    IN  <<a[1] + b[1] + (lo \div Base), lo % Base>>

\* a < b, for 32-bit values and for mathematical values alike
Lt32(a, b) == a[1] < b[1] \/ (a[1] = b[1] /\ a[2] < b[2])

Ge32(a, b) == ~Lt32(a, b)

\* the value of a small 32-bit number as an integer of the model
U32ToNat(a) == a[1] * Base + a[2]

INFINITY == ToU32(1000000)

UINT_MAX == <<Base - 1, Base - 1>>

(***************************************************************************)
(* State of dijkstra.c.                                                    *)
(***************************************************************************)
VARIABLES
    pc,          \* position of the program
    argv1,       \* the command line arguments after the program name: <<>> or <<d>>
    NV,          \* number of vertices
    edges,       \* the flat weight array, edges[i*NV+j+1] is the edge i -> j
    count_w,     \* readGraph: number of entries read so far
    goal,
    destination,
    distance,    \* distance[v], <<>> before init allocates it
    done,        \* done[v], <<>> before init allocates it
    step,        \* doWork: the loop counter
    current,     \* doWork: the current vertex and its distance
    status,      \* exit status of the process
    failure,     \* the exit call that ended the process, "none" if none did
    out,         \* lines written to the standard output
    gen          \* genGraph.c: the state of the generator program

vars == <<pc, argv1, NV, edges, count_w, goal, destination, distance, done,
          step, current, status, failure, out, gen>>

NoArg == <<>>

\* the generator when it is not the program that runs
GenNotRun == [pc |-> "idle"]

\* an automatic variable or struct member that has not been assigned
Undef == "undef"

NoCurrent == [vertex |-> Undef, distance |-> Undef]

Vertices(nv) == 0 .. nv - 1

\* edges[i*NV+j]
Edge(edg, nv, i, j) == edg[i * nv + j + 1]

(***************************************************************************)
(* The engine: find_vertex_with_minimum_distance, update_distances and     *)
(* the body of doWork's loop, as functions of the arrays they work on.     *)
(***************************************************************************)
RECURSIVE FindMinFrom(_, _, _, _, _)
FindMinFrom(v, vmin, dist, dn, nv) ==
    IF v >= nv THEN vmin
    ELSE FindMinFrom(v + 1,
                     IF dn[v] = 0 /\ Lt32(dist[v], vmin.distance)
                     THEN [vertex |-> v, distance |-> dist[v]]
                     ELSE vmin,
                     dist, dn, nv)

find_vertex_with_minimum_distance(dist, dn, nv) ==
    FindMinFrom(0, [vertex |-> Undef, distance |-> INFINITY], dist, dn, nv)

\* the candidate distance of v through cur
Alternative(cur, v, edg, nv) == Add32(cur.distance, Edge(edg, nv, cur.vertex, v))

\* update_distances without the test alternative < distance[v]
update_distances_NoCompare(cur, dist, dn, edg, nv) ==
    [v \in Vertices(nv) |->
        IF v >= 1 /\ dn[v] = 0 THEN Alternative(cur, v, edg, nv) ELSE dist[v]]

\* update_distances without the test !done[v]
update_distances_IgnoreDone(cur, dist, dn, edg, nv) ==
    [v \in Vertices(nv) |->
        IF v >= 1 /\ Lt32(Alternative(cur, v, edg, nv), dist[v])
        THEN Alternative(cur, v, edg, nv)
        ELSE dist[v]]

\* update_distances with the comparison the wrong way round
update_distances_Raise(cur, dist, dn, edg, nv) ==
    [v \in Vertices(nv) |->
        IF v >= 1 /\ dn[v] = 0 /\ Lt32(dist[v], Alternative(cur, v, edg, nv))
        THEN Alternative(cur, v, edg, nv)
        ELSE dist[v]]

update_distances(cur, dist, dn, edg, nv) ==
    [v \in Vertices(nv) |->
        IF v >= 1 /\ dn[v] = 0 /\ Lt32(Alternative(cur, v, edg, nv), dist[v])
        THEN Alternative(cur, v, edg, nv)
        ELSE dist[v]]

\* the vertex doWork takes at the top of an iteration
SelectCurrent(stp, dist, dn, nv) ==
    IF stp = 0 THEN [vertex |-> 0, distance |-> ToU32(0)]
    ELSE find_vertex_with_minimum_distance(dist, dn, nv)

\* the two break conditions of the loop
BreakNoPath(cur) == Ge32(cur.distance, INFINITY)

\* the early exit taken at whatever vertex is current
BreakFound_AnyVertex(cur, gl, dest) == gl = "FIND_ONE_DISTANCE"

BreakFound(cur, gl, dest) ==
    gl = "FIND_ONE_DISTANCE" /\ ToU32(cur.vertex) = dest

\* One iteration of doWork's loop on the state s = [distance, done, step,
\* current, brk]; brk is TRUE once the loop was left by a break.
doWorkBody(s, edg, nv, gl, dest) ==
    LET cur == SelectCurrent(s.step, s.distance, s.done, nv)
    IN  IF BreakNoPath(cur) \/ BreakFound(cur, gl, dest)
        THEN [s EXCEPT !.current = cur, !.brk = TRUE]
        ELSE LET dn == [s.done EXCEPT ![cur.vertex] = 1]
             IN  [s EXCEPT !.current = cur,
                           !.done = dn,
                           !.distance = update_distances(cur, s.distance, dn, edg, nv),
                           !.step = s.step + 1]

\* the arrays as init leaves them
InitDistance(nv) == [v \in Vertices(nv) |-> IF v = 0 THEN ToU32(0) ELSE INFINITY]

InitDone(nv) == [v \in Vertices(nv) |-> 0]

\* doWork with the loop bounded by step < bound, run to its end
RECURSIVE doWorkLoop(_, _, _, _, _, _)
doWorkLoop(s, bound, edg, nv, gl, dest) ==
    IF s.brk \/ s.step >= bound THEN s
    ELSE doWorkLoop(doWorkBody(s, edg, nv, gl, dest), bound, edg, nv, gl, dest)

doWorkRun(bound, edg, nv, gl, dest) ==
    doWorkLoop([distance |-> InitDistance(nv), done |-> InitDone(nv), step |-> 0,
                current |-> NoCurrent, brk |-> FALSE],
               bound, edg, nv, gl, dest)

(***************************************************************************)
(* Actions of doWork and of main after it.                                 *)
(***************************************************************************)
\* one iteration of the for loop of doWork
Iterate ==
    /\ pc = "loop"
    /\ step < NV
    /\ LET s == doWorkBody([distance |-> distance, done |-> done, step |-> step,
                            current |-> current, brk |-> FALSE],
                           edges, NV, goal, destination)
       IN  /\ distance' = s.distance
           /\ done' = s.done
           /\ step' = s.step
           /\ current' = s.current
           /\ pc' = IF s.brk THEN "print" ELSE "loop"
    /\ UNCHANGED <<argv1, NV, edges, count_w, goal, destination, status, failure,
                   out, gen>>

\* the loop condition step < NV fails
LoopEnd ==
    /\ pc = "loop"
    /\ step >= NV
    /\ pc' = "print"
    /\ UNCHANGED <<argv1, NV, edges, count_w, goal, destination, distance, done,
                   step, current, status, failure, out, gen>>

\* the lines printDistances writes
PrintedDistances(dist, nv) ==
    [i \in 1 .. nv |->
        IF Ge32(dist[i - 1], INFINITY) THEN <<i - 1, "*">> ELSE <<i - 1, dist[i - 1]>>]

\* the output of main after doWork
MainOutput(gl, dest, dist, nv) ==
    IF gl = "FIND_ALL_DISTANCES" THEN PrintedDistances(dist, nv)
    ELSE IF dist[U32ToNat(dest)] = INFINITY
         THEN << <<"no path to vertex", dest>> >>
         ELSE << <<"distance from 0 to", dest, dist[U32ToNat(dest)]>> >>

MainPrint ==
    /\ pc = "print"
    /\ out' = MainOutput(goal, destination, distance, NV)
    /\ pc' = "done"
    /\ status' = 0
    /\ UNCHANGED <<argv1, NV, edges, count_w, goal, destination, distance, done,
                   step, current, failure, gen>>

NextEngine == Iterate \/ LoopEnd \/ MainPrint

(***************************************************************************)
(* Exits.  Every call of exit in dijkstra.c is a site; a site belongs to   *)
(* one failure category.                                                   *)
(***************************************************************************)
FailureSites ==
    {"readGraph_malloc", "missing_count", "too_many", "bad_token",
     "count_mismatch", "illegal_destination", "init_malloc"}

\* an exit status table in which a malformed token ends with the status of
\* an illegal destination
ExitStatus_Collide(site) ==
    CASE site = "readGraph_malloc"    -> 1
      [] site = "missing_count"       -> 1
      [] site = "too_many"            -> 5
      [] site = "bad_token"           -> 4
      [] site = "count_mismatch"      -> 6
      [] site = "illegal_destination" -> 4
      [] site = "init_malloc"         -> 1

\* the argument of exit at each site
ExitStatus(site) ==
    CASE site = "readGraph_malloc"    -> 1
      [] site = "missing_count"       -> 1
      [] site = "too_many"            -> 5
      [] site = "bad_token"           -> 2
      [] site = "count_mismatch"      -> 6
      [] site = "illegal_destination" -> 4
      [] site = "init_malloc"         -> 1

FailureCategory(site) ==
    CASE site \in {"readGraph_malloc", "init_malloc"} -> "allocation failure"
      [] site = "missing_count"                       -> "missing vertex count"
      [] site \in {"too_many", "count_mismatch"}      -> "wrong weight count"
      [] site = "bad_token"                           -> "malformed weight token"
      [] site = "illegal_destination"                 -> "out-of-range destination"

\* exit(ExitStatus(site)) with everything else as it is
Exit(site) ==
    /\ pc' = "exit"
    /\ status' = ExitStatus(site)
    /\ failure' = site

(***************************************************************************)
(* readGraph.  The standard input is read token by token: what the next    *)
(* token is, is chosen when it is read.  White space and the line counter  *)
(* (used in the diagnostics only) are left out.                            *)
(***************************************************************************)
\* the weights the standard input holds as numbers
InputWeights == {ToU32(1), UINT_MAX}

\* the values of the command line argument
ArgValues == -2 .. MaxInputNV + 1

\* scanf("%d", &NV) reads the vertex count; malloc gives the edges array
ReadNV ==
    /\ pc = "readNV"
    /\ \E n \in 1 .. MaxInputNV : NV' = n
    /\ pc' = "readW"
    /\ UNCHANGED <<argv1, edges, count_w, goal, destination, distance, done, step,
                   current, status, failure, out, gen>>

\* scanf("%d", &NV) reads the vertex count; malloc returns NULL
ReadNVNoMemory ==
    /\ pc = "readNV"
    /\ \E n \in 1 .. MaxInputNV : NV' = n
    /\ Exit("readGraph_malloc")
    /\ UNCHANGED <<argv1, edges, count_w, goal, destination, distance, done, step,
                   current, out, gen>>

\* scanf("%d", &NV) does not find a number
ReadNVMissing ==
    /\ pc = "readNV"
    /\ Exit("missing_count")
    /\ UNCHANGED <<argv1, NV, edges, count_w, goal, destination, distance, done,
                   step, current, out, gen>>

\* getchar returns EOF: the loop ends and the number of weights is checked
ReadEOF ==
    /\ pc = "readW"
    /\ IF count_w # NV * NV
       THEN Exit("count_mismatch")
       ELSE pc' = "init" /\ UNCHANGED <<status, failure, gen>>
    /\ UNCHANGED <<argv1, NV, edges, count_w, goal, destination, distance, done,
                   step, current, out, gen>>

\* a token follows although NV*NV weights were read
ReadTooMany ==
    /\ pc = "readW"
    /\ count_w >= NV * NV
    /\ Exit("too_many")
    /\ UNCHANGED <<argv1, NV, edges, count_w, goal, destination, distance, done,
                   step, current, out, gen>>

\* the token is '*'
ReadStar ==
    /\ pc = "readW"
    /\ count_w < NV * NV
    /\ edges' = Append(edges, INFINITY)
    /\ count_w' = count_w + 1
    /\ UNCHANGED <<pc, argv1, NV, goal, destination, distance, done, step, current,
                   status, failure, out, gen>>

\* the token is a number scanf("%u", &w) reads
ReadNumber ==
    /\ pc = "readW"
    /\ count_w < NV * NV
    /\ \E w \in InputWeights : edges' = Append(edges, w)
    /\ count_w' = count_w + 1
    /\ UNCHANGED <<pc, argv1, NV, goal, destination, distance, done, step, current,
                   status, failure, out, gen>>

\* the token is neither '*' nor a number
ReadBadToken ==
    /\ pc = "readW"
    /\ count_w < NV * NV
    /\ Exit("bad_token")
    /\ UNCHANGED <<argv1, NV, edges, count_w, goal, destination, distance, done,
                   step, current, out, gen>>

(***************************************************************************)
(* init, after readGraph has returned.                                     *)
(***************************************************************************)
\* destination >= NV with the comparison the wrong way: NV itself is accepted
DestinationIllegal_OffByOne(dest, nv) == Lt32(ToU32(nv), dest)

\* destination >= NV, an unsigned comparison: NV is converted to unsigned int
DestinationIllegal(dest, nv) == Ge32(dest, ToU32(nv))

\* no command line argument
InitAll ==
    /\ pc = "init"
    /\ argv1 = NoArg
    /\ goal' = "FIND_ALL_DISTANCES"
    /\ distance' = InitDistance(NV)
    /\ done' = InitDone(NV)
    /\ pc' = "loop"
    /\ UNCHANGED <<argv1, NV, edges, count_w, destination, step, current, status,
                   failure, out, gen>>

\* a command line argument: destination = atoi(argv[1]), checked against NV
InitOne ==
    /\ pc = "init"
    /\ argv1 # NoArg
    /\ goal' = "FIND_ONE_DISTANCE"
    /\ destination' = ToU32(argv1[1])
    /\ IF DestinationIllegal(ToU32(argv1[1]), NV)
       THEN Exit("illegal_destination") /\ UNCHANGED <<distance, done, gen>>
       ELSE /\ distance' = InitDistance(NV)
            /\ done' = InitDone(NV)
            /\ pc' = "loop"
            /\ UNCHANGED <<status, failure, gen>>
    /\ UNCHANGED <<argv1, NV, edges, count_w, step, current, out, gen>>

\* malloc of distance or of done returns NULL
InitNoMemory ==
    /\ pc = "init"
    /\ argv1 # NoArg => ~DestinationIllegal(ToU32(argv1[1]), NV)
    /\ goal' = IF argv1 = NoArg THEN "FIND_ALL_DISTANCES" ELSE "FIND_ONE_DISTANCE"
    /\ destination' = IF argv1 = NoArg THEN destination ELSE ToU32(argv1[1])
    /\ Exit("init_malloc")
    /\ UNCHANGED <<argv1, NV, edges, count_w, distance, done, step, current, out, gen>>

NextLoad ==
    \/ ReadNV \/ ReadNVNoMemory \/ ReadNVMissing
    \/ ReadEOF \/ ReadTooMany \/ ReadStar \/ ReadNumber \/ ReadBadToken
    \/ InitAll \/ InitOne \/ InitNoMemory

\* the program as it starts: the globals are zero
Init ==
    /\ pc = "readNV"
    /\ argv1 \in {NoArg} \cup {<<d>> : d \in ArgValues}
    /\ NV = 0
    /\ edges = <<>>
    /\ count_w = 0
    /\ goal = "FIND_ONE_DISTANCE"
    /\ destination = ToU32(0)
    /\ distance = <<>>
    /\ done = <<>>
    /\ step = 0
    /\ current = NoCurrent
    /\ status = -1
    /\ failure = "none"
    /\ out = <<>>
    /\ gen = GenNotRun

Next == NextLoad \/ NextEngine

Spec == Init /\ [][Next]_vars

(***************************************************************************)
(* The engine on the graphs of at most MaxNV vertices: the state init      *)
(* leaves after a successful readGraph.  An absent edge ('*') holds        *)
(* INFINITY; a present edge holds one of Weights.  The self-loops and the  *)
(* edges into the source are absent: update_distances reads edges[c*NV+v]  *)
(* only for v >= 1 and v not done, while c is done.                        *)
(***************************************************************************)
Weights == {ToU32(0), ToU32(1), ToU32(999999), UINT_MAX}

OffDiagonal(nv) == {p \in Vertices(nv) \X (Vertices(nv) \ {0}) : p[1] # p[2]}

GraphEdges(nv, present, w) ==
    [k \in 1 .. nv * nv |->
        LET p == <<(k - 1) \div nv, (k - 1) % nv>>
        IN  IF p \in present THEN w[p] ELSE INFINITY]

InitEngine ==
    /\ NV \in 1 .. MaxNV
    /\ \E present \in {S \in SUBSET OffDiagonal(NV) : Cardinality(S) <= MaxEdges} :
         \E w \in [present -> Weights] :
            edges = GraphEdges(NV, present, w)
    /\ count_w = NV * NV
    /\ argv1 \in {NoArg} \cup {<<d>> : d \in Vertices(NV)}
    /\ goal = IF argv1 = NoArg THEN "FIND_ALL_DISTANCES" ELSE "FIND_ONE_DISTANCE"
    /\ destination = IF argv1 = NoArg THEN ToU32(0) ELSE ToU32(argv1[1])
    /\ distance = InitDistance(NV)
    /\ done = InitDone(NV)
    /\ step = 0
    /\ current = NoCurrent
    /\ pc = "loop"
    /\ status = -1
    /\ failure = "none"
    /\ out = <<>>
    /\ gen = GenNotRun

SpecEngine == InitEngine /\ [][NextEngine]_vars

(***************************************************************************)
(* genGraph.c.  Its values are C ints below 2^31 and are kept as integers. *)
(* gen = [pc, argv, NV, max_weight, edges, i, j, out, status]; argv holds  *)
(* the arguments after the program name, as the numbers atoi makes of them.*)
(***************************************************************************)
GEN_INFINITY == 1000000

RAND_MAX == 2147483647

\* the values rand() is taken to return
RandValues == {0, 1, 2, 3, 10, 11, GEN_INFINITY, RAND_MAX}

\* the values of the max-weight argument: positive maximum weights
GenMaxWeights == {1, 2, 10, GEN_INFINITY - 1, GEN_INFINITY}

\* a % b of C for a >= 0 and b > 0
CRem(a, b) == a % b

\* the weight the generator makes of a value r of rand()
GenWeight(r, max_weight) ==
    LET w == CRem(r, max_weight + 1)
    IN  IF w = 0 THEN 1 ELSE w

\* a weight as the output loop writes it
GenToken(w) ==
    IF w = GEN_INFINITY THEN [kind |-> "star", val |-> 0]
    ELSE [kind |-> "num", val |-> w]

\* argc < 2: the usage message
GenUsage ==
    /\ gen.pc = "start"
    /\ Len(gen.argv) < 1
    /\ gen' = [gen EXCEPT !.pc = "done", !.status = 1]
    /\ UNCHANGED <<pc, argv1, NV, edges, count_w, goal, destination, distance, done,
                   step, current, status, failure, out>>

\* the arguments are taken, with the defaults of those left out
GenArgs ==
    /\ gen.pc = "start"
    /\ Len(gen.argv) >= 1
    /\ gen' = [gen EXCEPT !.pc = "generate",
                          !.NV = gen.argv[1],
                          !.max_weight = IF Len(gen.argv) >= 2 THEN gen.argv[2] ELSE 10,
                          !.i = 0,
                          !.j = 0]
    /\ UNCHANGED <<pc, argv1, NV, edges, count_w, goal, destination, distance, done,
                   step, current, status, failure, out>>

\* the position after (i, j) in the nested loops
GenAdvance(g) ==
    IF g.j + 1 < g.NV THEN [g EXCEPT !.j = g.j + 1]
    ELSE [g EXCEPT !.i = g.i + 1, !.j = 0]

\* one pass of the inner loop: edges[i*NV+j] is set
GenEdge ==
    /\ gen.pc = "generate"
    /\ gen.i < gen.NV
    /\ gen.j < gen.NV
    /\ IF gen.j = gen.i
       THEN gen' = GenAdvance([gen EXCEPT !.edges = Append(gen.edges, GEN_INFINITY)])
       ELSE \E r \in RandValues :
                gen' = GenAdvance([gen EXCEPT
                           !.edges = Append(gen.edges, GenWeight(r, gen.max_weight))])
    /\ UNCHANGED <<pc, argv1, NV, edges, count_w, goal, destination, distance, done,
                   step, current, status, failure, out>>

\* the loops are over: the vertex count and the weights are written
GenWrite ==
    /\ gen.pc = "generate"
    /\ gen.i >= gen.NV
    /\ gen' = [gen EXCEPT !.pc = "done",
                          !.status = 0,
                          !.out = <<gen.NV>> \o
                                  [k \in 1 .. Len(gen.edges) |-> GenToken(gen.edges[k])]]
    /\ UNCHANGED <<pc, argv1, NV, edges, count_w, goal, destination, distance, done,
                   step, current, status, failure, out>>

NextGen == GenUsage \/ GenArgs \/ GenEdge \/ GenWrite

\* the command lines of the generator: no argument, the vertex count, or the
\* vertex count and the maximum weight (the seed only selects the sequence
\* rand() returns, which is any sequence here)
GenArgvs ==
    {<<>>} \cup {<<n>> : n \in 0 .. MaxGenNV}
           \cup {<<n, m>> : n \in 0 .. MaxGenNV, m \in GenMaxWeights}

InitGen ==
    /\ gen \in {[pc |-> "start", argv |-> a, NV |-> 0, max_weight |-> 0,
                 edges |-> <<>>, i |-> 0, j |-> 0, out |-> <<>>, status |-> -1] :
                a \in GenArgvs}
    /\ pc = "idle"
    /\ argv1 = NoArg
    /\ NV = 0
    /\ edges = <<>>
    /\ count_w = 0
    /\ goal = "FIND_ONE_DISTANCE"
    /\ destination = ToU32(0)
    /\ distance = <<>>
    /\ done = <<>>
    /\ step = 0
    /\ current = NoCurrent
    /\ status = -1
    /\ failure = "none"
    /\ out = <<>>

SpecGen == InitGen /\ [][NextGen]_vars

(***************************************************************************)
(* Reference: weights of paths, by enumeration.  A path is a sequence of   *)
(* present edges (an entry other than INFINITY); its weight is the         *)
(* mathematical sum of its edge weights.                                   *)
(***************************************************************************)
Present(i, j) == Edge(edges, NV, i, j) # INFINITY

\* the weights of the paths from vertex 0 of at most k edges to each vertex,
\* all of whose vertices but the last are in S
RECURSIVE PathWeights(_, _)
PathWeights(k, S) ==
    IF k = 0 THEN [v \in Vertices(NV) |-> IF v = 0 THEN {ToU32(0)} ELSE {}]
    ELSE LET W == PathWeights(k - 1, S)
         IN  [v \in Vertices(NV) |->
                 W[v] \cup UNION {{AddN(x, Edge(edges, NV, u, v)) : x \in W[u]} :
                                   u \in {t \in S : Present(t, v)}}]

MinWeight(X) == CHOOSE x \in X : \A y \in X : ~Lt32(y, x)

Reachable(v) == PathWeights(NV - 1, Vertices(NV))[v] # {}

\* the minimum sum of edge weights over the paths from 0 to v
ShortestDistance(v) == MinWeight(PathWeights(NV - 1, Vertices(NV))[v])

DoneSet == {v \in Vertices(NV) : done[v] = 1}

AfterDoWork == pc \in {"print", "done"}

(***************************************************************************)
(* Claims about the engine, checked under SpecEngine.                      *)
(***************************************************************************)

\* C1: after a run in ALL-distances mode, distance[v] of every vertex v
\* reachable from vertex 0 is the minimum sum of edge weights over all paths
\* from 0 to v.
C1_ReachableDistanceIsShortest ==
    (AfterDoWork /\ goal = "FIND_ALL_DISTANCES") =>
        \A v \in Vertices(NV) : Reachable(v) => distance[v] = ShortestDistance(v)

\* C2: after a run in ALL-distances mode, every vertex v unreachable from
\* vertex 0 has distance[v] = INFINITY, and printDistances reports it as v:*.
C2_UnreachableIsInfinity ==
    (AfterDoWork /\ goal = "FIND_ALL_DISTANCES") =>
        \A v \in Vertices(NV) :
            ~Reachable(v) =>
                /\ distance[v] = INFINITY
                /\ pc = "done" => out[v + 1] = <<v, "*">>

\* a finished ALL-distances run on a graph where a vertex is unreachable and
\* another vertex, not the source, is reachable
C2_Witness ==
    /\ pc = "done"
    /\ goal = "FIND_ALL_DISTANCES"
    /\ \E v \in Vertices(NV) : ~Reachable(v)
    /\ \E v \in Vertices(NV) : v # 0 /\ Reachable(v) /\ Lt32(distance[v], INFINITY)

\* C3: the value distance[d] left by a run in FIND_ONE_DISTANCE mode with
\* destination d equals distance[d] left by a run in FIND_ALL_DISTANCES mode
\* on the same graph.
C3_OneModeAgreesWithAllMode ==
    (AfterDoWork /\ goal = "FIND_ONE_DISTANCE") =>
        distance[U32ToNat(destination)] =
            doWorkRun(NV, edges, NV, "FIND_ALL_DISTANCES", destination)
                .distance[U32ToNat(destination)]

\* a ONE-distance run that left the loop at the early exit, at a destination
\* other than the source, where the ALL-distances run goes on
C3_Witness ==
    /\ AfterDoWork
    /\ goal = "FIND_ONE_DISTANCE"
    /\ destination # ToU32(0)
    /\ Lt32(current.distance, INFINITY)
    /\ ToU32(current.vertex) = destination
    /\ doWorkRun(NV, edges, NV, "FIND_ALL_DISTANCES", destination).step > step

\* C4: the candidate current.distance + edges[current*NV+v] computed in
\* unsigned 32-bit arithmetic equals the mathematical sum, for every vertex
\* update_distances computes it for.
C4_AlternativeNeverWraps ==
    (pc = "loop" /\ step >= 1) =>
        \A v \in Vertices(NV) :
            (v >= 1 /\ done[v] = 0) =>
                Alternative(current, v, edges, NV) =
                    AddN(current.distance, Edge(edges, NV, current.vertex, v))

\* C8: no distance[v] ever increases from one state to the next, a write to
\* distance[v] strictly lowers it, and distance[0] stays 0.
C8_Monotone ==
    [][/\ \A v \in Vertices(NV) :
             distance'[v] # distance[v] => Lt32(distance'[v], distance[v])
       /\ distance[0] = ToU32(0)
       /\ distance'[0] = ToU32(0)]_vars

\* a distance that was lowered after it was first set through the edge from
\* the source
C8_Witness ==
    /\ pc = "loop"
    /\ \E v \in Vertices(NV) :
         /\ v # 0
         /\ Present(0, v)
         /\ Lt32(Edge(edges, NV, 0, v), INFINITY)
         /\ Lt32(distance[v], Edge(edges, NV, 0, v))

\* C9: at the top of every iteration of doWork, distance[v] of a done vertex
\* is the shortest-path weight from 0 to v, and distance[v] of a vertex not
\* done is the weight of the shortest path from 0 to v through done vertices
\* only (INFINITY if there is none).
C9_LoopInvariant ==
    (pc = "loop" /\ step < NV) =>
        \A v \in Vertices(NV) :
            LET through == PathWeights(NV - 1, DoneSet)[v]
            IN  /\ done[v] = 1 => distance[v] = ShortestDistance(v)
                /\ done[v] = 0 =>
                      distance[v] = IF through = {} THEN INFINITY ELSE MinWeight(through)

\* C10: the iteration with step = NV-1 changes no distance, and the table
\* doWork leaves is the one the loop bounded by step < NV-1 leaves.
C10_FinalIterationIsIdle ==
    /\ (pc = "loop" /\ step = NV - 1) =>
          doWorkBody([distance |-> distance, done |-> done, step |-> step,
                      current |-> current, brk |-> FALSE],
                     edges, NV, goal, destination).distance = distance
    /\ AfterDoWork =>
          distance = doWorkRun(NV - 1, edges, NV, goal, destination).distance

\* doWork ran all NV iterations on a graph of three or more vertices
C10_Witness ==
    /\ pc = "print"
    /\ step = NV
    /\ NV >= 3
    /\ \A v \in Vertices(NV) : done[v] = 1 /\ Lt32(distance[v], INFINITY)

(***************************************************************************)
(* Claims about the whole program, checked under Spec.                     *)
(***************************************************************************)
Exited == pc = "exit"

\* the exit statuses each failure category is seen to end with
CategoryStatuses(cat) ==
    CASE cat = "allocation failure"       -> {1}
      [] cat = "missing vertex count"     -> {1}
      [] cat = "malformed weight token"   -> {2}
      [] cat = "out-of-range destination" -> {4}
      [] cat = "wrong weight count"       -> {5, 6}

\* C5 as stated: every failure ends the program with a non-zero exit status
\* that no site of another failure category exits with.
C5_ExitStatusPerCategory ==
    Exited =>
        /\ status # 0
        /\ \A site \in FailureSites :
              FailureCategory(site) # FailureCategory(failure) =>
                  ExitStatus(site) # status

\* C5, amended: every failure ends the program with a non-zero exit status;
\* missing vertex count (1), malformed weight token (2), out-of-range
\* destination (4) and wrong weight count (5 or 6) share no exit status, and
\* allocation failure exits with 1, the status of missing vertex count.
C5_ExitStatusPerCategoryButAllocation ==
    Exited =>
        /\ status # 0
        /\ status \in CategoryStatuses(FailureCategory(failure))
        /\ \A site \in FailureSites :
              (FailureCategory(site) # FailureCategory(failure)
                  /\ ExitStatus(site) = status) =>
                      {FailureCategory(site), FailureCategory(failure)} =
                          {"allocation failure", "missing vertex count"}

\* init could not allocate the arrays for a graph that was read in full
C5_Witness ==
    /\ Exited
    /\ failure = "init_malloc"
    /\ status = 1
    /\ count_w = NV * NV

ReadGraphReturned ==
    /\ pc \notin {"readNV", "readW"}
    /\ failure \notin {"readGraph_malloc", "missing_count", "too_many", "bad_token",
                       "count_mismatch"}

\* C6: with a destination argument d on a well-formed graph, once init has
\* run: if d is outside [0, NV) the program has exited with the out-of-range
\* status and doWork was never executed (nothing was computed or printed); if
\* d is inside the range, doWork runs in ONE-distance mode with destination d.
C6_DestinationValidated ==
    (argv1 # NoArg /\ ReadGraphReturned /\ pc # "init") =>
        IF argv1[1] \notin Vertices(NV)
        THEN /\ Exited
             /\ failure = "illegal_destination"
             /\ status = 4
             /\ step = 0
             /\ distance = <<>>
             /\ done = <<>>
             /\ out = <<>>
        ELSE /\ failure \in {"none", "init_malloc"}
             /\ pc \in {"loop", "print", "done"} =>
                   /\ goal = "FIND_ONE_DISTANCE"
                   /\ destination = ToU32(argv1[1])
             /\ pc = "done" =>
                   /\ Len(out) = 1
                   /\ out[1][2] = ToU32(argv1[1])

\* a negative destination on a well-formed graph, refused by init
C6_Witness ==
    /\ argv1 # NoArg
    /\ argv1[1] < 0
    /\ ReadGraphReturned
    /\ Exited
    /\ status = 4
    /\ count_w = NV * NV

(***************************************************************************)
(* Claim about the generator, checked under SpecGen.                       *)
(***************************************************************************)
\* the token written for the edge i -> j
GenOutToken(i, j) == gen.out[1 + i * gen.NV + j + 1]

\* C7: in the generator's output every pair (i, j) with i # j has an integer
\* weight token w with 1 <= w <= maxWeight, never '*', and every self-edge
\* (i, i) is written as '*'.
C7_GeneratedWeightsInRange ==
    (gen.pc = "done" /\ gen.status = 0) =>
        \A i \in Vertices(gen.NV) : \A j \in Vertices(gen.NV) :
            IF i = j THEN GenOutToken(i, j).kind = "star"
            ELSE /\ GenOutToken(i, j).kind = "num"
                 /\ 1 <= GenOutToken(i, j).val
                 /\ GenOutToken(i, j).val <= gen.max_weight

====
